---- MODULE Spec2Model ----
(***************************************************************************)
(* Model of full_fred's FredBase (src/full_fred/fred_base.py): credential  *)
(* resolution, request-URL assembly, optional-parameter assembly and the   *)
(* fetch wrapper.                                                          *)
(*                                                                         *)
(* Python strings are sequences of symbols.  A symbol is one character     *)
(* ("a", " ", "\t", ";") or, for the fixed literals of the source, one     *)
(* word of the literal ("file_type", "tag_names").  Python values are      *)
(* tagged records: None, PStr(s), PInt(n), PBool(b), PList(l).     *)
(*                                                                         *)
(* Line 74 of the source reads `elif "FRED_API_KEY" in ...` with no        *)
(* preceding `if`; env_api_key_found is modelled as the `if` it stands for.*)
(***************************************************************************)
EXTENDS Integers, Sequences, FiniteSets, TLC

VARIABLES api_key, api_key_file, api_key_env_var, environ, files, params, out, last

vars == <<api_key, api_key_file, api_key_env_var, environ, files, params, out, last>>

-----------------------------------------------------------------------------
(* Bounds *)

NumKeys == 2

NumPaths == 2

MaxParams == 2

MaxId == 11

MaxValueLen == 12

-----------------------------------------------------------------------------
(* Python values *)

None == [t |-> "none"]

PStr(s) == [t |-> "str", s |-> s]

PInt(n) == [t |-> "int", n |-> n]

PBool(b) == [t |-> "bool", b |-> b]

PList(l) == [t |-> "list", l |-> l]

Absent == <<"absent">>

-----------------------------------------------------------------------------
(* Python string primitives *)

Whitespace == {" ", "\t", "\n"}

Digits == <<"0", "1", "2", "3", "4", "5", "6", "7", "8", "9">>

Upper == <<"A", "B", "C", "D", "E", "F", "G", "H", "I", "J", "K", "L", "M",
           "N", "O", "P", "Q", "R", "S", "T", "U", "V", "W", "X", "Y", "Z">>

Lower == <<"a", "b", "c", "d", "e", "f", "g", "h", "i", "j", "k", "l", "m",
           "n", "o", "p", "q", "r", "s", "t", "u", "v", "w", "x", "y", "z">>

RECURSIVE NatToStr(_)
NatToStr(n) ==
    IF n < 10 THEN <<Digits[n + 1]>>
    ELSE NatToStr(n \div 10) \o <<Digits[(n % 10) + 1]>>

IntToStr(n) == IF n < 0 THEN <<"-">> \o NatToStr(0 - n) ELSE NatToStr(n)

LowerChar(c) ==
    IF \E i \in 1..Len(Upper) : Upper[i] = c
    THEN Lower[CHOOSE i \in 1..Len(Upper) : Upper[i] = c]
    ELSE c

str_lower(s) == [i \in 1..Len(s) |-> LowerChar(s[i])]

RECURSIVE lstrip(_)
lstrip(s) ==
    IF s # <<>> /\ Head(s) \in Whitespace THEN lstrip(Tail(s)) ELSE s

RECURSIVE rstrip(_)
rstrip(s) ==
    IF s # <<>> /\ s[Len(s)] \in Whitespace
    THEN rstrip(SubSeq(s, 1, Len(s) - 1))
    ELSE s

str_strip(s) == rstrip(lstrip(s))

str_replace(s, old, new) == [i \in 1..Len(s) |-> IF s[i] = old THEN new ELSE s[i]]

RECURSIVE str_join(_, _)
str_join(sep, strings) ==
    IF strings = <<>> THEN <<>>
    ELSE IF Len(strings) = 1 THEN strings[1]
    ELSE strings[1] \o sep \o str_join(sep, Tail(strings))

str_contains(hay, needle) ==
    \E i \in 0..(Len(hay) - Len(needle)) :
        SubSeq(hay, i + 1, i + Len(needle)) = needle

readline(text) ==
    IF \E i \in 1..Len(text) : text[i] = "\n"
    THEN SubSeq(text, 1, CHOOSE i \in 1..Len(text) :
                            /\ text[i] = "\n"
                            /\ \A j \in 1..(i - 1) : text[j] # "\n")
    ELSE text

ReprChar(c) == IF c = "\t" THEN <<"\\", "t">> ELSE IF c = "\n" THEN <<"\\", "n">> ELSE <<c>>

RECURSIVE ReprBody(_)
ReprBody(s) == IF s = <<>> THEN <<>> ELSE ReprChar(Head(s)) \o ReprBody(Tail(s))

ReprStr(s) == <<"'">> \o ReprBody(s) \o <<"'">>

PyStr(v) ==
    CASE v.t = "none" -> <<"N", "o", "n", "e">>
      [] v.t = "bool" -> IF v.b THEN <<"T", "r", "u", "e">> ELSE <<"F", "a", "l", "s", "e">>
      [] v.t = "int"  -> IntToStr(v.n)
      [] v.t = "str"  -> v.s
      [] v.t = "list" -> <<"[">> \o str_join(<<",", " ">>, [i \in 1..Len(v.l) |-> ReprStr(v.l[i])]) \o <<"]">>

-----------------------------------------------------------------------------
(* Results of a call: a return value or a raised exception, plus what was   *)
(* printed.                                                                 *)

Return(v, printed) == [status |-> "ok", exc |-> "", val |-> v, out |-> printed]

Raise(e, printed) == [status |-> "raise", exc |-> e, val |-> None, out |-> printed]

-----------------------------------------------------------------------------
(* Input domains *)

Keys == {<<"k", "e", "y">> \o IntToStr(i) : i \in 1..NumKeys}

Paths == {<<"/", "f">> \o IntToStr(i) : i \in 1..NumPaths}

FileTexts ==
    {<<>>} \cup {<<" ">> \o k \o <<" ", "\n", "x", "\n">> : k \in Keys}

Fragments == {<<"series", "?", "series_id", "=", "G">>, <<"releases", "?">>}

url_base == <<"https://api.stlouisfed.org/fred/">>

-----------------------------------------------------------------------------
(* Credential resolution *)

FileNotFoundMessage(path) ==
    <<"[Errno 2] No such file or directory: ">> \o ReprStr(path)

\* os.path.isfile / open: a path names a file when the file system maps it to a text
isfile(fs, path) == fs[path] # Absent

env_api_key_found(env) == env # Absent

set_api_key_file(fs, path) ==
    IF path = None THEN Raise("TypeError", <<>>)
    ELSE IF ~isfile(fs, path.s) THEN Raise("FileNotFoundError", <<>>)
    ELSE Return(PBool(TRUE), <<>>)

read_api_key_file_NoStrip(akf, fs) ==
    IF akf = None THEN Raise("TypeError", <<>>)
    ELSE IF ~isfile(fs, akf.s) THEN Return(None, <<FileNotFoundMessage(akf.s)>>)
    ELSE Return(PStr(readline(fs[akf.s])), <<>>)

read_api_key_file(akf, fs) ==
    IF akf = None THEN Raise("TypeError", <<>>)
    ELSE IF ~isfile(fs, akf.s) THEN Return(None, <<FileNotFoundMessage(akf.s)>>)
    ELSE Return(PStr(str_strip(readline(fs[akf.s]))), <<>>)

viable_api_key_EnvFirst(ak, akf, env) ==
    IF ak = None
    THEN IF ~env_api_key_found(env)
         THEN IF akf = None
              THEN Raise("AttributeError", <<>>)
              ELSE Return(PStr(<<"file">>), <<>>)
         ELSE Return(PStr(<<"env">>), <<>>)
    ELSE Return(PStr(<<"attribute">>), <<>>)

viable_api_key(ak, akf, env) ==
    IF ak = None
    THEN IF akf = None
         THEN IF ~env_api_key_found(env)
              THEN Raise("AttributeError", <<>>)
              ELSE Return(PStr(<<"env">>), <<>>)
         ELSE Return(PStr(<<"file">>), <<>>)
    ELSE Return(PStr(<<"attribute">>), <<>>)

\* str + x: concatenation, a TypeError when x is None
str_add(base, x, printed) ==
    IF x.t = "str" THEN Return(PStr(base \o x.s), printed)
    ELSE Raise("TypeError", printed)

make_request_url_FilePath(ak, akf, env, fs, var_url) ==
    LET key_to_use == viable_api_key(ak, akf, env)
        base == url_base \o var_url \o <<"&", "file_type", "=", "json", "&", "api_key", "=">>
    IN  IF key_to_use.status = "raise" THEN key_to_use
        ELSE IF key_to_use.val = PStr(<<"attribute">>) THEN str_add(base, ak, <<>>)
        ELSE IF key_to_use.val = PStr(<<"env">>)
             THEN IF env # Absent THEN Return(PStr(base \o env), <<>>)
                  ELSE Return(None, <<<<"'FRED_API_KEY'", " ", " no longer found in environment">>>>)
        ELSE str_add(base, akf, <<>>)

make_request_url(ak, akf, env, fs, var_url) ==
    LET key_to_use == viable_api_key(ak, akf, env)
        base == url_base \o var_url \o <<"&", "file_type", "=", "json", "&", "api_key", "=">>
    IN  IF key_to_use.status = "raise" THEN key_to_use
        ELSE IF key_to_use.val = PStr(<<"attribute">>) THEN str_add(base, ak, <<>>)
        ELSE IF key_to_use.val = PStr(<<"env">>)
             THEN IF env # Absent THEN Return(PStr(base \o env), <<>>)
                  ELSE Return(None, <<<<"'FRED_API_KEY'", " ", " no longer found in environment">>>>)
        ELSE LET key == read_api_key_file(akf, fs)
             IN  IF key.status = "raise" THEN key
                 ELSE str_add(base, key.val, key.out)

\* requests.get followed by response.json(); net is what the network does:
\*   "fail"    requests.get raises a RequestException
\*   "badjson" a response whose body is not JSON
\*   "null"    a response whose body is the JSON value null
\*   "json"    a response whose body is a JSON object
NetOutcomes == {"fail", "badjson", "null", "json"}

JsonBody == PStr(<<"{", "}">>)

get_response(a_url, net) ==
    IF net = "fail" THEN Return(None, <<>>)
    ELSE IF net = "badjson" THEN Raise("JSONDecodeError", <<>>)
    ELSE IF net = "null" THEN Return(None, <<>>)
    ELSE Return(JsonBody, <<>>)

FetchMessage_WithUrl(url) == <<"Data could not be retrieved from ">> \o url.s

FetchMessage(url) == <<"Data could not be retrieved, returning None">>

fetch_data(ak, akf, env, fs, url_prefix, net) ==
    LET url == make_request_url(ak, akf, env, fs, url_prefix)
    IN  IF url.status = "raise" THEN url
        ELSE LET json_data == get_response(url.val, net)
             IN  IF json_data.status = "raise"
                 THEN Raise(json_data.exc, url.out)
                 ELSE IF json_data.val = None
                      THEN Return(None, url.out \o <<FetchMessage(url.val)>>)
                      ELSE Return(json_data.val, url.out)

-----------------------------------------------------------------------------
(* The object and its environment *)

Call(op, arg, r) == [op |-> op, arg |-> arg, status |-> r.status, exc |-> r.exc, val |-> r.val]

Init ==
    /\ api_key = None
    /\ api_key_file = None
    /\ api_key_env_var = FALSE
    /\ environ = Absent
    /\ files = [p \in Paths |-> Absent]
    /\ params = <<>>
    /\ out = <<>>
    /\ last = Call("__init__", <<None, None>>, Return(None, <<>>))

KeyArgs == {None} \cup {PStr(k) : k \in Keys}

PathArgs == {None} \cup {PStr(p) : p \in Paths}

\* FredBase(api_key, api_key_file): a construction that raises leaves no object,
\* the one at hand stays
Construct(k, f) ==
    LET r == IF k = None /\ f # None THEN set_api_key_file(files, f) ELSE Return(None, <<>>)
    IN  /\ last' = Call("__init__", <<k, f>>, IF r.status = "raise" THEN r ELSE Return(None, <<>>))
        /\ out' = <<>>
        /\ IF r.status = "raise"
           THEN UNCHANGED <<api_key, api_key_file, api_key_env_var>>
           ELSE /\ api_key' = k
                /\ api_key_file' = f
                /\ api_key_env_var' = (~(k = None /\ f # None) /\ env_api_key_found(environ))
        /\ UNCHANGED <<environ, files, params>>

SetApiKeyFile(f) ==
    LET r == set_api_key_file(files, f)
    IN  /\ last' = Call("set_api_key_file", f, r)
        /\ out' = r.out
        /\ api_key_file' = IF r.status = "ok" THEN f ELSE api_key_file
        /\ UNCHANGED <<api_key, api_key_env_var, environ, files, params>>

GetApiKeyFile ==
    /\ last' = Call("get_api_key_file", None, Return(api_key_file, <<>>))
    /\ out' = <<>>
    /\ UNCHANGED <<api_key, api_key_file, api_key_env_var, environ, files, params>>

EnvApiKeyFound ==
    /\ last' = Call("env_api_key_found", None, Return(PBool(env_api_key_found(environ)), <<>>))
    /\ out' = <<>>
    /\ UNCHANGED <<api_key, api_key_file, api_key_env_var, environ, files, params>>

ReadApiKeyFile ==
    LET r == read_api_key_file(api_key_file, files)
    IN  /\ last' = Call("_read_api_key_file", None, r)
        /\ out' = r.out
        /\ UNCHANGED <<api_key, api_key_file, api_key_env_var, environ, files, params>>

ViableApiKey ==
    LET r == viable_api_key(api_key, api_key_file, environ)
    IN  /\ last' = Call("_viable_api_key", None, r)
        /\ out' = r.out
        /\ UNCHANGED <<api_key, api_key_file, api_key_env_var, environ, files, params>>

MakeRequestUrl(var_url) ==
    LET r == make_request_url(api_key, api_key_file, environ, files, var_url)
    IN  /\ last' = Call("_make_request_url", var_url, r)
        /\ out' = r.out
        /\ UNCHANGED <<api_key, api_key_file, api_key_env_var, environ, files, params>>

FetchData(url_prefix, net) ==
    LET r == fetch_data(api_key, api_key_file, environ, files, url_prefix, net)
    IN  /\ last' = Call("_fetch_data", [url_prefix |-> url_prefix, net |-> net], r)
        /\ out' = r.out
        /\ UNCHANGED <<api_key, api_key_file, api_key_env_var, environ, files, params>>

\* What happens around the object: FRED_API_KEY is set or unset, a key file is
\* written or removed
SetEnviron(v) ==
    /\ environ' = v
    /\ environ' # environ
    /\ last' = Call("environ", v, Return(None, <<>>))
    /\ out' = <<>>
    /\ UNCHANGED <<api_key, api_key_file, api_key_env_var, files, params>>

WriteFile(p, text) ==
    /\ files' = [files EXCEPT ![p] = text]
    /\ files' # files
    /\ last' = Call("file", p, Return(None, <<>>))
    /\ out' = <<>>
    /\ UNCHANGED <<api_key, api_key_file, api_key_env_var, environ, params>>

Next ==
    \/ \E k \in KeyArgs, f \in PathArgs : Construct(k, f)
    \/ \E f \in PathArgs : SetApiKeyFile(f)
    \/ GetApiKeyFile
    \/ EnvApiKeyFound
    \/ ReadApiKeyFile
    \/ ViableApiKey
    \/ \E u \in Fragments : MakeRequestUrl(u)
    \/ \E u \in Fragments, net \in NetOutcomes : FetchData(u, net)
    \/ \E v \in Keys \cup {Absent} : SetEnviron(v)
    \/ \E p \in Paths, text \in FileTexts \cup {Absent} : WriteFile(p, text)

Spec == Init /\ [][Next]_vars

-----------------------------------------------------------------------------
(* Parameter assembly *)

IncludeKey == <<"&", "include_release_dates_with_no_data", "=">>

ParamNames ==
    { <<"&", "limit", "=">>,
      IncludeKey,
      <<"&", "tag_names", "=">>,
      <<"&", "exclude_", "tag_names", "=">> }

TagLists ==
    { <<>>,
      << <<"x">> >>,
      << <<"i", "n", "f">>, <<"u", "s", "a", " ", "t", "r">> >>,
      << <<" ", "a", "\t", "b", " ">> >> }

ParamValues ==
    {None, PBool(TRUE), PBool(FALSE), PInt(23), PStr(<<"U", "p">>)}
        \cup {PList(l) : l \in TagLists}

\* a dict: its items in insertion order, no key twice
Queries ==
    UNION { { q \in [1..n -> [k : ParamNames, v : ParamValues]] :
                \A i, j \in 1..n : i # j => q[i].k # q[j].k } : n \in 0..MaxParams }

Separators == {None, PStr(<<";">>), PStr(<<",", " ">>)}

\* use_str.join(strings): a list of str or a str (its characters) joins, anything
\* else is a TypeError, which is caught and printed; fused_str is then unbound
join_strings_by(strings, use_str) ==
    IF strings = None \/ use_str = None THEN Raise("TypeError", <<>>)
    ELSE IF strings.t = "list" THEN Return(PStr(str_join(use_str.s, strings.l)), <<>>)
    ELSE IF strings.t = "str"
         THEN Return(PStr(str_join(use_str.s, [i \in 1..Len(strings.s) |-> <<strings.s[i]>>])), <<>>)
    ELSE Raise("UnboundLocalError", <<<<"Unable to join strings using ">> \o use_str.s>>)

\* the mutation of optional_params[k] in place
SetItem(d, i, v) == [d EXCEPT ![i].v = v]

\* optional_params[k] is not None
IsPresent_Always(v) == TRUE

IsPresent(v) == v # None

\* the value of a key after the include_release_dates_with_no_data branch
LowerInclude_NoLower(k, v) ==
    IF k = IncludeKey THEN PStr(PyStr(v)) ELSE v

LowerInclude(k, v) ==
    IF k = IncludeKey THEN PStr(str_lower(PyStr(v))) ELSE v

\* the value of a tag_names after the join: stripped, spaces to "+"
TagNamesValue(joined) == PStr(str_replace(str_strip(joined), " ", "+"))

\* one iteration of the loop over optional_params.keys()
AddOneParam(st, i) ==
    LET k  == st.params[i].k
        v0 == st.params[i].v
        v1 == LowerInclude(k, v0)
        d1 == SetItem(st.params, i, v1)
        j  == IF str_contains(k, <<"tag_names">>)
              THEN join_strings_by(v1, PStr(<<";">>))
              ELSE Return(v1, <<>>)
        v2 == IF str_contains(k, <<"tag_names">>) /\ j.status = "ok"
              THEN TagNamesValue(j.val.s)
              ELSE v1
        d2 == SetItem(d1, i, v2)
    IN  IF ~IsPresent(v0) THEN st
        ELSE IF j.status = "raise" /\ j.exc # "TypeError"
             THEN [st EXCEPT !.status = "raise", !.exc = j.exc,
                             !.params = d1, !.out = st.out \o j.out]
        ELSE IF j.status = "raise"
             THEN [st EXCEPT !.params = d1,
                             !.out = st.out \o j.out \o <<<<"Cannot add tag_names to FRED query url">>>>,
                             !.url = st.url \o k \o PyStr(v1)]
        ELSE [st EXCEPT !.params = d2, !.url = st.url \o k \o PyStr(v2)]

RECURSIVE AddLoop(_, _)
AddLoop(st, i) ==
    IF i > Len(st.params) \/ st.status = "raise" THEN st
    ELSE AddLoop(AddOneParam(st, i), i + 1)

add_optional_params(og_url_string, optional_params) ==
    LET st == AddLoop([url |-> og_url_string, params |-> optional_params,
                       out |-> <<>>, status |-> "ok", exc |-> ""], 1)
    IN  [status |-> st.status, exc |-> st.exc, out |-> st.out, params |-> st.params,
         val |-> IF st.status = "ok" THEN PStr(st.url) ELSE None]

append_id_to_url_StrFirst(a_url_prefix, an_int_id, a_str_id) ==
    IF an_int_id = None /\ a_str_id = None THEN Raise("ValueError", <<>>)
    ELSE LET passed_id == IF a_str_id = None THEN an_int_id ELSE a_str_id
         IN  Return(PStr(a_url_prefix \o PyStr(passed_id)), <<>>)

append_id_to_url(a_url_prefix, an_int_id, a_str_id) ==
    IF an_int_id = None /\ a_str_id = None THEN Raise("ValueError", <<>>)
    ELSE LET passed_id == IF an_int_id = None THEN a_str_id ELSE an_int_id
         IN  Return(PStr(a_url_prefix \o PyStr(passed_id)), <<>>)

-----------------------------------------------------------------------------
(* Calls of the parameter helpers; params is the dict the caller holds *)

InitParams ==
    /\ api_key = None
    /\ api_key_file = None
    /\ api_key_env_var = FALSE
    /\ environ = Absent
    /\ files = [p \in Paths |-> Absent]
    /\ params \in Queries
    /\ out = <<>>
    /\ last = Call("dict", params, Return(None, <<>>))

AddOptionalParams(og_url_string) ==
    LET r == add_optional_params(og_url_string, params)
    IN  /\ \A i \in 1..Len(params) : params[i].v.t = "str" => Len(params[i].v.s) <= MaxValueLen
        /\ params' = r.params
        /\ last' = Call("_add_optional_params",
                        [og_url_string |-> og_url_string, optional_params |-> params], r)
        /\ out' = r.out
        /\ UNCHANGED <<api_key, api_key_file, api_key_env_var, environ, files>>

IntIds == {None} \cup {PInt(n) : n \in (-1)..MaxId}

StrIds == {None, PStr(<<"G", "D", "P">>), PStr(<<>>)}

AppendIdToUrl(a_url_prefix, an_int_id, a_str_id) ==
    LET r == append_id_to_url(a_url_prefix, an_int_id, a_str_id)
    IN  /\ last' = Call("_append_id_to_url",
                        [a_url_prefix |-> a_url_prefix, an_int_id |-> an_int_id,
                         a_str_id |-> a_str_id], r)
        /\ out' = r.out
        /\ UNCHANGED <<api_key, api_key_file, api_key_env_var, environ, files, params>>

JoinStringsBy(strings, use_str) ==
    LET r == join_strings_by(strings, use_str)
    IN  /\ last' = Call("_join_strings_by", [strings |-> strings, use_str |-> use_str], r)
        /\ out' = r.out
        /\ UNCHANGED <<api_key, api_key_file, api_key_env_var, environ, files, params>>

NextParams ==
    \E u \in Fragments : AddOptionalParams(u)

SpecParams == InitParams /\ [][NextParams]_vars

NextHelpers ==
    \/ \E u \in Fragments, n \in IntIds, s \in StrIds : AppendIdToUrl(u, n, s)
    \/ \E v \in ParamValues, sep \in Separators : JoinStringsBy(v, sep)

SpecHelpers == Init /\ [][NextHelpers]_vars

-----------------------------------------------------------------------------
(* Properties *)

ApiKeyParam == <<"&", "file_type", "=", "json", "&", "api_key", "=">>

FileText == files[api_key_file.s]

\* C1: credential resolution reports the explicit key when a key string is
\* configured, otherwise the file when a key file path is configured, otherwise
\* the environment when FRED_API_KEY is set, and raises the missing-credential
\* error exactly when none of the three is present.
C1_Precedence ==
    last.op = "_viable_api_key" =>
        /\ api_key # None => last.status = "ok" /\ last.val = PStr(<<"attribute">>)
        /\ api_key = None /\ api_key_file # None =>
               last.status = "ok" /\ last.val = PStr(<<"file">>)
        /\ api_key = None /\ api_key_file = None /\ environ # Absent =>
               last.status = "ok" /\ last.val = PStr(<<"env">>)
        /\ (last.status = "raise") <=>
               (api_key = None /\ api_key_file = None /\ environ = Absent)
        /\ last.status = "raise" => last.exc = "AttributeError"

C1_Witness ==
    /\ last.op = "_viable_api_key"
    /\ api_key = None /\ api_key_file # None /\ environ # Absent
    /\ last.val = PStr(<<"file">>)

\* the credential of the source that credential resolution selects
SelectedCredential ==
    IF api_key # None THEN api_key.s
    ELSE IF api_key_file # None THEN str_strip(readline(FileText))
    ELSE environ

\* C2: the URL returned by _make_request_url is the fixed base, the fragment,
\* file_type=json and a trailing api_key parameter whose value is the credential
\* of the selected source; with only the environment variable set it is that
\* variable's value.
C2_RequestUrl ==
    last.op = "_make_request_url" /\ last.status = "ok" =>
        /\ last.val = PStr(url_base \o last.arg \o ApiKeyParam \o SelectedCredential)
        /\ api_key = None /\ api_key_file = None =>
               SubSeq(last.val.s, Len(last.val.s) - Len(environ) + 1, Len(last.val.s)) = environ

C2_Witness ==
    /\ last.op = "_make_request_url" /\ last.status = "ok"
    /\ api_key = None /\ api_key_file = None /\ environ # Absent

\* C3: whenever a credential is resolvable, _fetch_data never raises: it returns
\* None if the network call fails or the body is not JSON, and the decoded JSON
\* otherwise.
C3_FetchNeverRaises ==
    (/\ last.op = "_fetch_data"
     /\ viable_api_key(api_key, api_key_file, environ).status = "ok") =>
        /\ last.status = "ok"
        /\ last.arg.net \in {"fail", "badjson", "null"} => last.val = None
        /\ last.arg.net = "json" => last.val = JsonBody

\* the call at hand is an _add_optional_params that returned
AddReturned == last.op = "_add_optional_params" /\ last.status = "ok"

\* the symbols that follow the name k in url, up to the next parameter
RenderedValue(url, k) ==
    LET at   == CHOOSE i \in 0..(Len(url) - Len(k)) : SubSeq(url, i + 1, i + Len(k)) = k
        rest == SubSeq(url, at + Len(k) + 1, Len(url))
        stop == IF \E j \in 1..Len(rest) : rest[j] = "&"
                THEN CHOOSE j \in 1..Len(rest) :
                        rest[j] = "&" /\ \A h \in 1..(j - 1) : rest[h] # "&"
                ELSE Len(rest) + 1
    IN  SubSeq(rest, 1, stop - 1)

LowercaseBool(b) == IF b THEN <<"t", "r", "u", "e">> ELSE <<"f", "a", "l", "s", "e">>

CapitalizedBool(b) == IF b THEN <<"T", "r", "u", "e">> ELSE <<"F", "a", "l", "s", "e">>

\* C4 as stated: every parameter whose value is a boolean, whatever its name, is
\* rendered in the URL as lowercase "true" or "false".
C4_AnyNameLowercase ==
    AddReturned =>
        \A i \in 1..Len(last.arg.optional_params) :
            LET p == last.arg.optional_params[i]
            IN  p.v.t = "bool" =>
                    /\ str_contains(last.val.s, p.k)
                    /\ RenderedValue(last.val.s, p.k) = LowercaseBool(p.v.b)

\* C4 amended: a boolean value is rendered as lowercase "true" or "false" under
\* the name &include_release_dates_with_no_data=, and as "True" or "False" under
\* every other name the call returns for.
C4_IncludeKeyLowercase ==
    AddReturned =>
        \A i \in 1..Len(last.arg.optional_params) :
            LET p == last.arg.optional_params[i]
            IN  p.v.t = "bool" =>
                    /\ str_contains(last.val.s, p.k)
                    /\ RenderedValue(last.val.s, p.k) =
                           IF p.k = IncludeKey THEN LowercaseBool(p.v.b)
                                               ELSE CapitalizedBool(p.v.b)

C4_Witness ==
    /\ AddReturned
    /\ \E i \in 1..Len(last.arg.optional_params) :
           /\ last.arg.optional_params[i] = [k |-> IncludeKey, v |-> PBool(TRUE)]
           /\ RenderedValue(last.val.s, IncludeKey) = <<"t", "r", "u", "e">>

\* the names found in a string, in order: each starts at a "&" and ends at the next "="
RECURSIVE NamesIn(_)
NamesIn(s) ==
    IF s = <<>> THEN <<>>
    ELSE IF Head(s) = "&"
         THEN LET eq == CHOOSE j \in 1..Len(s) : s[j] = "=" /\ \A h \in 1..(j - 1) : s[h] # "="
              IN  <<SubSeq(s, 1, eq)>> \o NamesIn(SubSeq(s, eq + 1, Len(s)))
         ELSE NamesIn(Tail(s))

PresentNames(q) ==
    LET present == SelectSeq(q, LAMBDA p : p.v # None)
    IN  [i \in 1..Len(present) |-> present[i].k]

\* C5: the string returned by _add_optional_params is the input string followed
\* by name+value for exactly the parameters whose value is not None, in the
\* insertion order of the mapping; if every value is None it is the input string.
C5_PresentInOrder ==
    AddReturned =>
        LET og     == last.arg.og_url_string
            q      == last.arg.optional_params
            url    == last.val.s
            suffix == SubSeq(url, Len(og) + 1, Len(url))
        IN  /\ Len(url) >= Len(og) /\ SubSeq(url, 1, Len(og)) = og
            /\ NamesIn(suffix) = PresentNames(q)
            /\ \A i \in 1..Len(q) :
                   q[i].v # None => RenderedValue(suffix, q[i].k) = PyStr(params[i].v)
            /\ Len(suffix) = Len(str_join(<<>>, [i \in 1..Len(q) |->
                                 IF q[i].v = None THEN <<>> ELSE q[i].k \o PyStr(params[i].v)]))
            /\ (\A i \in 1..Len(q) : q[i].v = None) => url = og

C5_Witness ==
    /\ AddReturned
    /\ Len(last.arg.optional_params) = 2
    /\ last.arg.optional_params[1].v = None
    /\ last.arg.optional_params[2].v = PInt(23)
    /\ last.val.s = last.arg.og_url_string \o last.arg.optional_params[2].k \o <<"2", "3">>

AllWhitespaceToPlus(s) == [i \in 1..Len(s) |-> IF s[i] \in Whitespace THEN "+" ELSE s[i]]

\* C6: for a parameter whose name contains tag_names and whose value is a
\* sequence of strings, the value rendered in the URL is the strings joined with
\* ";" with every interior whitespace character replaced by "+".
C6_TagNamesWhitespace ==
    AddReturned =>
        \A i \in 1..Len(last.arg.optional_params) :
            LET p == last.arg.optional_params[i]
            IN  str_contains(p.k, <<"tag_names">>) /\ p.v.t = "list" =>
                    RenderedValue(last.val.s, p.k) =
                        AllWhitespaceToPlus(str_strip(str_join(<<";">>, p.v.l)))

IsBlank(s) == \A i \in 1..Len(s) : s[i] \in Whitespace

\* s is line without the whitespace at its two ends
IsTrimOf(s, line) ==
    /\ s = <<>> \/ (s[1] \notin Whitespace /\ s[Len(s)] \notin Whitespace)
    /\ \E a \in 0..Len(line) :
           /\ a + Len(s) <= Len(line)
           /\ IsBlank(SubSeq(line, 1, a))
           /\ SubSeq(line, a + 1, a + Len(s)) = s
           /\ IsBlank(SubSeq(line, a + Len(s) + 1, Len(line)))

ReadCalled == last.op = "_read_api_key_file" /\ api_key_file # None

\* C7 as stated: _read_api_key_file returns the first line of the file, trimmed,
\* and fails with the credential-file-not-found error if the path does not exist
\* at the time of the read.
C7_ReadRaisesNotFound ==
    ReadCalled =>
        IF isfile(files, api_key_file.s)
        THEN last.status = "ok" /\ last.val.t = "str" /\ IsTrimOf(last.val.s, readline(FileText))
        ELSE last.status = "raise" /\ last.exc = "FileNotFoundError"

\* C7 amended: _read_api_key_file returns the first line of the file, trimmed;
\* if the path does not exist at the time of the read it raises nothing, prints
\* the not-found error and returns None, and _make_request_url then raises a
\* TypeError.  The not-found error is raised when a missing path is set.
C7_ReadPrintsNotFound ==
    /\ ReadCalled =>
           IF isfile(files, api_key_file.s)
           THEN /\ last.status = "ok" /\ last.val.t = "str"
                /\ IsTrimOf(last.val.s, readline(FileText))
                /\ out = <<>>
           ELSE /\ last.status = "ok" /\ last.val = None
                /\ out = <<FileNotFoundMessage(api_key_file.s)>>
    /\ (/\ last.op = "_make_request_url"
        /\ api_key = None /\ api_key_file # None
        /\ ~isfile(files, api_key_file.s)) =>
           last.status = "raise" /\ last.exc = "TypeError"
    /\ (/\ last.op = "set_api_key_file"
        /\ last.arg # None
        /\ ~isfile(files, last.arg.s)) =>
           last.status = "raise" /\ last.exc = "FileNotFoundError"

C7_WitnessRemoved ==
    /\ ReadCalled
    /\ ~isfile(files, api_key_file.s)
    /\ last.val = None

\* every credential the object can resolve to in this state
Credentials ==
    (IF api_key # None THEN {api_key.s} ELSE {})
        \cup (IF environ # Absent THEN {environ} ELSE {})
        \cup {str_strip(readline(files[p])) : p \in {f \in Paths : isfile(files, f)}}

\* C8: no diagnostic message that an operation prints contains the value of a
\* credential (a key string, the first line of a key file, the value of
\* FRED_API_KEY), whichever source it comes from and whichever failure occurs.
C8_NoCredentialPrinted ==
    \A i \in 1..Len(out) :
        \A c \in Credentials : c # <<>> => ~str_contains(out[i], c)

C8_Witness ==
    /\ last.op = "_fetch_data"
    /\ out # <<>>
    /\ api_key = None /\ api_key_file # None /\ isfile(files, api_key_file.s)
    /\ SelectedCredential # <<>>

\* C9: _append_id_to_url raises the invalid-argument error when neither id is
\* supplied; otherwise it returns the fragment followed by the string form of
\* the supplied id, the integer id when both are supplied.
C9_AppendId ==
    last.op = "_append_id_to_url" =>
        LET a == last.arg
        IN  IF a.an_int_id = None /\ a.a_str_id = None
            THEN last.status = "raise" /\ last.exc = "ValueError"
            ELSE /\ last.status = "ok"
                 /\ last.val = PStr(a.a_url_prefix \o
                        (IF a.an_int_id # None THEN IntToStr(a.an_int_id.n) ELSE a.a_str_id.s))

C9_Witness ==
    /\ last.op = "_append_id_to_url"
    /\ last.arg.an_int_id = PInt(10) /\ last.arg.a_str_id # None
    /\ last.val = PStr(last.arg.a_url_prefix \o <<"1", "0">>)

\* C10: two calls of _add_optional_params in a row with the same URL string and
\* the same mapping object return the same string.
C10_Repeatable ==
    [][(/\ last.op = "_add_optional_params" /\ last.status = "ok"
        /\ last'.op = "_add_optional_params" /\ last'.status = "ok"
        /\ last'.arg.og_url_string = last.arg.og_url_string)
           => last'.val = last.val]_vars

====
